---- MODULE Spec2Model ----
(***************************************************************************)
(* RunnersRoute: the route search of routing_providers.py (one loop search *)
(* per provider, one request per attempt) and the provider arbitration of  *)
(* routing.py (get_best_route).  Every provider request is one step, and   *)
(* the backend's answer to it is chosen by the environment.                *)
(*                                                                         *)
(*   Spec          one get_best_route call on an empty cache               *)
(*   SpecAnyInput  one call with any start coordinate, against a backend   *)
(*                 whose payloads may be malformed                         *)
(*   SpecSession   repeated calls with the same arguments over time, with  *)
(*                 the cache of st.cache_data, against a backend that is   *)
(*                 a pure function of the seed                             *)
(*   SpecKey       two calls of create_cache_key                           *)
(*   SpecUtils     one call of calculate_elevation_gain, of                *)
(*                 get_route_statistics or of parse_pace (utils.py)        *)
(*   SpecRequests  one call for a target of 3 km or 7 km: what the loop    *)
(*                 requests carry                                          *)
(*   SpecDetour    one call of get_best_route or of get_route_ors of       *)
(*                 main.py, which requests point-to-point routes through   *)
(*                 via points                                              *)
(*   SpecRecall    repeated calls that differ in _cache_key and in the     *)
(*                 configured secrets only                                 *)
(*   SpecZero      one call of one provider for a target of 0 km or 1 km   *)
(*                                                                         *)
(* Distances are metres (integers).  The float comparisons of the source   *)
(* are modelled in exact arithmetic (the product of the GraphHopper        *)
(* distance adjustment is modelled as the double it is):                   *)
(*   deviation <= distance_m * (tolerance_percent / 100)                   *)
(*       as   100 * deviation <= distance_m * tolerance_percent            *)
(*   abs((route_distance - distance_m) / distance_m * 100) <= 1.0          *)
(*       as   100 * deviation <= PERFECT_TOLERANCE_PERCENT * distance_m    *)
(* The debug display of the searches (st.checkbox(..., value=False)) is    *)
(* taken in its default, unchecked state.                                  *)
(***************************************************************************)
EXTENDS Integers, Sequences, FiniteSets, TLC

\* ------------------------------------------------------------------ bounds

\* target distances are 1 .. MaxDistanceKm kilometres
MaxDistanceKm == 5

\* get_best_route is called at most MaxCalls times with the same arguments
MaxCalls == 2

\* the clock advances at most MaxTicks times, half a CACHE_TTL at a time
MaxTicks == 2

\* point sequences have at most MaxPoints points
MaxPoints == 4

\* pace strings have at most MaxPaceLen characters
MaxPaceLen == 4

\* ------------------------------------------------------- program constants

MAX_ROUTE_ATTEMPTS == 10

PERFECT_TOLERANCE_PERCENT == 1

\* max_attempts of GraphHopperProvider._get_round_trip
max_attempts == 5

\* config.py: the ttl of st.cache_data on get_best_route, in seconds
CACHE_TTL == 3600

\* float('inf'), the initial best_deviation: larger than every deviation
Infinity == 1000000000

\* ------------------------------------------------------------------ inputs

Selectors == {"auto", "ors", "graphhopper", "both"}

Modes == {"loop", "point-to-point"}

\* tolerance_percent: 0 (exact), the perfect threshold itself, the default
TolerancePercents == {0, 1, 5}

DistancesKm == {1, MaxDistanceKm}

\* (lat, lon) in degrees: Stockholm, and points beyond a limit
Stockholm == <<59, 18>>

Coordinates == {Stockholm, <<91, 18>>, <<59, 0 - 181>>}

\* what random.randint(1, 100000) may draw
RandomSeeds == {40000, 70000}

\* the kinds of backend: "any" answers each request freely; "pure" answers
\* as a function of the provider and the seed of the request; "malformed"
\* also answers with payloads whose numbers are not usable
Backends == {"any", "pure", "malformed"}

\* ------------------------------------------------------ backend responses

\* a value that is absent from the payload (the key is not there)
Missing == 0 - 1

\* a value that is present and not a number (JSON null, a string)
Null == 0 - 2

\* returned distances, as a deviation from the target in permille of it
DeviationsPermille == {-1000, -20, -10, -8, 0, 8, 20, 160}

ReturnedDistances(target) ==
    {target + ((target * p) \div 1000) : p \in DeviationsPermille}

\* a route point on a line: x is its position in metres; elevation is
\* Missing for a coordinate of two numbers (elevation = None)
RoutePoint(x, elevation) == [x |-> x, elevation |-> elevation]

\* the coordinates of an out-and-back route with elevation data
OutAndBack == <<RoutePoint(0, 10), RoutePoint(2500, 20), RoutePoint(0, 10)>>

\* the coordinates of a route of two points without elevation data
Flat == <<RoutePoint(0, Missing), RoutePoint(500, Missing)>>

\* kind: "exception" (the request or response.json() raises: network error,
\*       timeout), "non200" (status_code != 200), "empty" (200, no
\*       features/paths), "ok" (200 with features[0] / paths[0]).
\* dist: the reported total distance, or Missing, or Null.
\* ascent: the reported ascent (ORS "ascent", GraphHopper "ascend"), or
\*       Missing, or Null.
\* timed: the path carries a positive "time" (read by GraphHopper only).
\* hasCoords/coords: the coordinates key of the geometry and its value.
Response(kind, dist, hasCoords, coords) ==
    [kind |-> kind, dist |-> dist, ascent |-> Missing, timed |-> FALSE,
     hasCoords |-> hasCoords, coords |-> coords]

WithAscent(r, ascent) == [r EXCEPT !.ascent = ascent]

Timed(r) == [r EXCEPT !.timed = TRUE]

\* None as response data (best_route = None)
NoData == Response("none", Missing, FALSE, << >>)

Failures == {Response(k, Missing, FALSE, << >>) : k \in {"exception", "non200", "empty"}}

\* payloads with a geometry, for every returned distance and without one
Routed(target) ==
    {Response("ok", d, TRUE, OutAndBack) :
        d \in ReturnedDistances(target) \cup {Missing}}

\* payloads whose geometry is absent or empty
Truncated(target) ==
    {Response("ok", d, FALSE, << >>) : d \in {target + (target \div 50), Missing}}
    \cup {Response("ok", target, TRUE, << >>)}

Payloads(target) == Routed(target) \cup Truncated(target)

Responses(target) == Failures \cup Payloads(target)

\* the answers of a stub: an error, and routes 16% and 2% over and 1% under
Stub(target) ==
    {Response("exception", Missing, FALSE, << >>)}
    \cup {Response("ok", target + ((target * p) \div 1000), TRUE, OutAndBack) :
             p \in {160, 20, 0 - 10}}

\* payloads whose numbers are zero, negative, absent or not numbers
Malformed(target) ==
    {WithAscent(Response("ok", d, TRUE, OutAndBack), a) :
        d \in {target, 0, 0 - target, Null},
        a \in {30, 0 - 30, Null}}
    \cup {WithAscent(Response("ok", target, TRUE, Flat), 0),
          Timed(Response("ok", Null, TRUE, OutAndBack))}

\* what the backend may answer, by the kind of backend
Answers(kind, target) ==
    IF kind = "malformed" THEN Failures \cup Truncated(target) \cup Malformed(target)
    ELSE IF kind = "pure" THEN Stub(target)
    ELSE Responses(target)

\* None as a RouteInfo
NoRoute == [provider |-> "none", distance |-> 0, elevation_gain |-> 0,
            points |-> << >>]

\* an exception that leaves the parser instead of a RouteInfo
Raised == [provider |-> "raised", distance |-> 0, elevation_gain |-> 0,
           points |-> << >>]

Providers == {"ORS", "GraphHopper"}

\* the point at an angle (degrees) around the midpoint of start and end,
\* at the radius extra / (2 * pi) metres, converted to degrees
ViaPoint(angle, extra) == [angle |-> angle, extra |-> extra]

\* no via point: a request of start and end only
NoVia == ViaPoint(Missing, Missing)

\* no request yet
NoRequest == [provider |-> "none", seed |-> Missing, length |-> Missing,
              points |-> Missing, via |-> NoVia]

\* no earlier call
NoPrevious == [result |-> NoRoute, seeds |-> << >>, calls |-> 0, age |-> 0,
               key |-> << >>, ors |-> FALSE, gh |-> FALSE]

VARIABLES
    start,                  \* (lat, lon)
    seed,
    backend,                \* the kind of backend behind the providers
    selector,               \* the provider argument as passed by the caller
    provider,               \* the local variable provider (reassigned by auto)
    orsKey,                 \* "ORS_API_KEY" in st.secrets
    ghKey,                  \* "GRAPHHOPPER_API_KEY" in st.secrets
    mode,
    end,                    \* TRUE iff an end coordinate is given
    distance_km,
    tolerance_percent,
    pc,                     \* position in get_best_route
    attempt,                \* loop variable of the running search
    best_route,
    best_deviation,
    found_within_tolerance,
    least,                  \* the smallest deviation among the successful
                            \* attempts of the running search
    earliest,               \* the payload of the first attempt that had it
    routes,
    result,                 \* the returned RouteInfo (NoRoute for None)
    calls,                  \* requests issued so far, per provider
    allFailed,              \* per provider: no request so far returned a payload
    anyGood,                \* some request returned a complete route payload
    lastKind,               \* the kind of the latest response
    request,                \* the latest request: its provider, seed, length,
                            \* number of points and via point
    seeds,                  \* the seeds requested by the latest run of the
                            \* body of get_best_route, in order
    answered,               \* <<provider, seed, response>> of a pure backend
    run,                    \* the number of this get_best_route call
    previous,               \* the call before: its result, seeds and request
                            \* count, and the age of its result at this call
    key_args,               \* the arguments of a create_cache_key call
    _cache_key,             \* the key it returned ("" before)
    other_args,             \* the arguments of a second create_cache_key call
    other_key,              \* the key that one returned
    args,                   \* the argument of a call of a function of utils.py
    returned,               \* what that call returned
    feature,                \* get_route_ors of main.py: the feature it holds
    via_points,             \* the list calculate_via_points returned to it
    via,                    \* how many of them it has submitted
    cache,                  \* the entries of st.cache_data
    computed,               \* the time at which the body last returned
    now                     \* the clock, in seconds

vars == <<start, seed, backend, selector, provider, orsKey, ghKey, mode, end,
          distance_km, tolerance_percent, pc, attempt, best_route,
          best_deviation, found_within_tolerance, least, earliest, routes,
          result, calls,
          allFailed, anyGood, lastKind, request, seeds, answered, run,
          previous, key_args, _cache_key, other_args, other_key, args,
          returned, feature, via_points, via, cache, computed, now>>

ghost == <<calls, allFailed, anyGood, lastKind>>

asked == <<request, seeds, answered>>

session == <<run, previous, now>>

memo == <<cache, computed>>

keying == <<key_args, _cache_key, other_args, other_key>>

calling == <<args, returned>>

detour == <<feature, via_points, via>>

inputs == <<start, seed, backend, selector, orsKey, ghKey, mode, end,
            distance_km, tolerance_percent, keying, calling, detour>>

search == <<attempt, best_route, best_deviation, found_within_tolerance,
           least, earliest>>

distance_m == distance_km * 1000

Abs(x) == IF x < 0 THEN 0 - x ELSE x

\* ------------------------------------------------------------ utils.py

RECURSIVE calculate_distance_from_points(_)
\* the sum of the segment lengths (the Haversine length of a segment is its
\* length |x1 - x2| on the line); 0 for fewer than 2 points
calculate_distance_from_points(points) ==
    IF Len(points) < 2 THEN 0
    ELSE Abs(points[2].x - points[1].x) + calculate_distance_from_points(Tail(points))

RECURSIVE Climb(_, _)
\* the for loop of calculate_elevation_gain: the rises between successive
\* points that have an elevation; prev is prev_elevation
Climb(points, prev) ==
    IF points = << >> THEN 0
    ELSE LET e == Head(points).elevation
         IN  IF e = Missing THEN Climb(Tail(points), prev)
             ELSE (IF prev # Missing /\ e > prev THEN e - prev ELSE 0)
                  + Climb(Tail(points), e)

\* mutant: the first elevation counted as a rise from 0
calculate_elevation_gain_from_zero(points) ==
    IF \A i \in 1..Len(points) : points[i].elevation \in {Missing, 0} THEN 0
    ELSE Climb(points, 0)

\* 0 without points or when no point has a nonzero elevation
calculate_elevation_gain(points) ==
    IF \A i \in 1..Len(points) : points[i].elevation \in {Missing, 0} THEN 0
    ELSE Climb(points, Missing)

\* -90 <= lat <= 90 and -180 <= lon <= 180
validate_coordinates(lat, lon) ==
    /\ 0 - 90 <= lat /\ lat <= 90
    /\ 0 - 180 <= lon /\ lon <= 180

\* -------------------------------------------------- routing_providers.py

RouteInfo(name, distance, elevation_gain, points) ==
    [provider |-> name, distance |-> distance,
     elevation_gain |-> elevation_gain, points |-> points]

\* mutant: a reported ascent used whatever its sign
ElevationGain_reported(data, points) ==
    IF data.ascent = Missing THEN calculate_elevation_gain(points)
    ELSE data.ascent

\* ascent = properties.get("ascent", 0);
\* ascent if ascent > 0 else calculate_elevation_gain(points)
ElevationGain(data, points) ==
    LET ascent == IF data.ascent = Missing THEN 0 ELSE data.ascent
    IN  IF ascent > 0 THEN ascent ELSE calculate_elevation_gain(points)

\* data.get(..., 0) of a reported distance
GetDistance(data) == IF data.dist = Missing THEN 0 ELSE data.dist

\* geometry.get("coordinates", []) turned into RoutePoints
ParsedPoints(data) == IF data.hasCoords THEN data.coords ELSE << >>

\* mutant: the parse without its test for features in the payload
_parse_ors_response_unchecked(data) ==
    IF data.kind \notin {"ok", "empty"} THEN NoRoute
    ELSE RouteInfo("ORS", GetDistance(data), 0, ParsedPoints(data))

\* "ascent > 0" raises TypeError for an ascent that is not a number, and so
\* does "distance / 1000" for such a distance
_parse_ors_response(data) ==
    IF data.kind # "ok" THEN NoRoute
    ELSE IF data.ascent = Null THEN Raised
    ELSE IF data.dist = Null THEN Raised
    ELSE LET points == ParsedPoints(data)
             distance == IF GetDistance(data) = 0 /\ points # << >>
                         THEN calculate_distance_from_points(points)
                         ELSE GetDistance(data)
         IN  RouteInfo("ORS", distance, ElevationGain(data, points), points)

\* "ascend > 0" raises as above; "distance / 1000" is computed only when
\* the path has no positive time
_parse_graphhopper_response(data) ==
    IF data.kind # "ok" THEN NoRoute
    ELSE IF ~data.hasCoords THEN NoRoute
    ELSE IF data.ascent = Null THEN Raised
    ELSE IF data.dist = Null /\ ~data.timed THEN Raised
    ELSE RouteInfo("GraphHopper", GetDistance(data),
                   ElevationGain(data, data.coords), data.coords)

\* tolerance_m = distance_m * (tolerance_percent / 100); deviation <= tolerance_m
WithinTolerance(deviation) == 100 * deviation <= distance_m * tolerance_percent

\* abs(deviation_percent) <= PERFECT_TOLERANCE_PERCENT
IsPerfect(route_distance) ==
    100 * Abs(route_distance - distance_m) <= PERFECT_TOLERANCE_PERCENT * distance_m

Held(route, deviation, found) ==
    [best_route |-> route, best_deviation |-> deviation,
     found_within_tolerance |-> found]

\* mutant: outside the tolerance the latest candidate is kept
TrackBest_latest(held, data, route_distance) ==
    LET deviation == Abs(route_distance - distance_m)
    IN  IF WithinTolerance(deviation)
        THEN IF ~held.found_within_tolerance \/ deviation < held.best_deviation
             THEN Held(data, deviation, TRUE)
             ELSE held
        ELSE IF ~held.found_within_tolerance
             THEN Held(data, deviation, held.found_within_tolerance)
             ELSE held

\* mutant: a candidate within tolerance also replaces one of equal deviation
TrackBest_ties(held, data, route_distance) ==
    LET deviation == Abs(route_distance - distance_m)
    IN  IF WithinTolerance(deviation)
        THEN IF ~held.found_within_tolerance \/ deviation <= held.best_deviation
             THEN Held(data, deviation, TRUE)
             ELSE held
        ELSE IF ~held.found_within_tolerance /\ deviation < held.best_deviation
             THEN Held(data, deviation, held.found_within_tolerance)
             ELSE held

\* the candidate bookkeeping of one successful attempt
TrackBest(held, data, route_distance) ==
    LET deviation == Abs(route_distance - distance_m)
    IN  IF WithinTolerance(deviation)
        THEN IF ~held.found_within_tolerance \/ deviation < held.best_deviation
             THEN Held(data, deviation, TRUE)
             ELSE held
        ELSE IF ~held.found_within_tolerance /\ deviation < held.best_deviation
             THEN Held(data, deviation, held.found_within_tolerance)
             ELSE held

\* mutant: no break on a perfect match
PerfectBreak_never(route_distance) == FALSE

\* the break on a perfect match: nested in "if within_tolerance:"
PerfectBreak(route_distance) ==
    /\ WithinTolerance(Abs(route_distance - distance_m))
    /\ IsPerfect(route_distance)

\* mutant: the stop after 3 attempts without its found_within_tolerance test
EnoughAttempts_unconditional(found, k) == k >= 2

\* ORS only: "if found_within_tolerance and attempt >= 2: break"
EnoughAttempts(found, k) == found /\ k >= 2

\* mutant: the loop bound off by one (range(maxAttempts + 1))
LastAttempt_late(k, maxAttempts) == k >= maxAttempts

\* the for loop has no further iteration after attempt k
LastAttempt(k, maxAttempts) == k + 1 >= maxAttempts

\* mutant: the bookkeeping without the test for features in the payload
OrsCandidate_unchecked(r) == r.kind \in {"ok", "empty"}

\* an attempt that reaches the bookkeeping
\* ORS reads data["features"][0]["properties"]["summary"]["distance"]
\* (KeyError when absent) and subtracts distance_m from it (TypeError when
\* it is not a number)
\* and divides by distance_m for deviation_percent (ZeroDivisionError for a
\* target of 0)
OrsCandidate(r) ==
    r.kind = "ok" /\ r.dist \notin {Missing, Null} /\ distance_m # 0

\* GraphHopper reads path.get("distance", 0)
GhCandidate(r) == r.kind = "ok" /\ r.dist # Null

\* an attempt that ends in the except clause (continue)
OrsRaises(r) ==
    \/ r.kind = "exception"
    \/ r.kind = "ok" /\ (r.dist \in {Missing, Null} \/ distance_m = 0)

GhRaises(r) == r.kind = "exception" \/ (r.kind = "ok" /\ r.dist = Null)

\* mutant: the same seed on every attempt
RouteSeeds_fixed(sd, k) == IF sd > 0 THEN {sd} ELSE RandomSeeds

\* mutant: a random seed for every attempt
RouteSeeds_random(sd, k) == RandomSeeds

\* route_seed = seed + attempt if seed > 0 else random.randint(1, 100000)
RouteSeeds(sd, k) == IF sd > 0 THEN {sd + k} ELSE RandomSeeds

Min(a, b) == IF a <= b THEN a ELSE b

Max(a, b) == IF a >= b THEN a ELSE b

\* num_points = min(5, max(2, int(distance_m / 2000))): the quotient of two
\* integral doubles is off an integer by 1/2000 at least, so int() of it is
\* the integer quotient
num_points == Min(5, Max(2, distance_m \div 2000))

\* A double is sign, exponent and a significand of 53 bits.  The
\* significand of a double in [1, 2) is written in base 2^13 as
\* <<d0, d1, d2, d3, d4>>, least significant digit first: its value is
\* d4 + d3 / 2^13 + d2 / 2^26 + d1 / 2^39 + d0 / 2^52.
Base == 8192

\* adjustment = 1.0 + (attempt * 0.05) as the doubles it evaluates to:
\* 0x1.0000000000000p+0, 0x1.0cccccccccccdp+0 (above 1.05),
\* 0x1.199999999999ap+0 (above 1.1), 0x1.2666666666666p+0 (below 1.15),
\* 0x1.3333333333333p+0 (below 1.2)
adjustment(k) ==
    CASE k = 0 -> <<0, 0, 0, 0, 1>>
      [] k = 1 -> <<3277, 1638, 4915, 409, 1>>
      [] k = 2 -> <<6554, 3276, 1638, 819, 1>>
      [] k = 3 -> <<1638, 4915, 6553, 1228, 1>>
      [] k = 4 -> <<4915, 6553, 3276, 1638, 1>>

\* the carry out of digit i of the exact product t * significand
RECURSIVE Carry(_, _, _)
Carry(t, digits, i) ==
    IF i = 0 THEN 0 ELSE (t * digits[i] + Carry(t, digits, i - 1)) \div Base

\* digit i of the exact product t * significand
ProductDigit(t, digits, i) == (t * digits[i] + Carry(t, digits, i - 1)) % Base

\* the exponent of a positive integer: 2^e <= n < 2^(e + 1)
Exponent(n) == CHOOSE e \in 0..30 : 2^e <= n /\ n < 2 * 2^e

\* int(t * a) for an integral double t and a double a in [1, 2): the exact
\* product is whole + fraction / 2^52; the multiplication rounds it to 53
\* bits (to nearest, ties to even), which reaches whole + 1 when the
\* fraction is within half a unit in the last place of 1; int() drops what
\* is left of the fraction
Truncate(t, digits) ==
    LET whole == t * digits[5] + Carry(t, digits, 4)
        low == ProductDigit(t, digits, 2) * Base + ProductDigit(t, digits, 1)
        roundsUp ==
            /\ ProductDigit(t, digits, 4) = Base - 1
            /\ ProductDigit(t, digits, 3) = Base - 1
            /\ Exponent(whole) >= 1
            /\ Base * Base - low <= 2^(Exponent(whole) - 1)
    IN  IF roundsUp THEN whole + 1 ELSE whole

\* int(adjusted_distance), adjusted_distance = distance_m * adjustment
round_trip_distance(k) == Truncate(distance_m, adjustment(k))

current == Held(best_route, best_deviation, found_within_tolerance)

OrsHeldAfter(r) ==
    IF OrsCandidate(r) THEN TrackBest(current, r, r.dist) ELSE current

\* mutant: the deviation taken from the distance requested on the attempt
GhHeldAfter_adjusted(r) ==
    IF GhCandidate(r)
    THEN TrackBest(current, r,
                   GetDistance(r) - (round_trip_distance(attempt) - distance_m))
    ELSE current

GhHeldAfter(r) ==
    IF GhCandidate(r) THEN TrackBest(current, r, GetDistance(r)) ELSE current

OrsBreaks(r) ==
    \/ OrsCandidate(r) /\ PerfectBreak(r.dist)
    \/ ~OrsRaises(r) /\ EnoughAttempts(OrsHeldAfter(r).found_within_tolerance, attempt)

GhBreaks(r) == GhCandidate(r) /\ PerfectBreak(GetDistance(r))

\* ----------------------------------------------------------- routing.py

\* mutant: auto prefers ORS
AutoProvider_ors_first(gh, ors) ==
    IF ors THEN "ors" ELSE IF gh THEN "graphhopper" ELSE "none"

\* provider == "auto": GraphHopper if its key is there, else ORS, else none
AutoProvider(gh, ors) ==
    IF gh THEN "graphhopper" ELSE IF ors THEN "ors" ELSE "none"

\* mutant: ORS is also asked when GraphHopper was chosen
UsesOrs_fallback(p) == p \in {"ors", "both", "graphhopper"}

UsesOrs(p) == p \in {"ors", "both"}

\* mutant: the key taken to be configured
Configured_assumed(key) == TRUE

\* "X_API_KEY" in st.secrets
Configured(key) == key

\* mutant: point-to-point without the test for an end coordinate
HasEnd_unchecked(e) == TRUE

\* "if not end: return None"
HasEnd(e) == e

\* mutant: the GraphHopper block entered for every selector
UsesGraphHopper_always(p) == p \in {"ors", "graphhopper", "both"}

UsesGraphHopper(p) == p \in {"graphhopper", "both"}

\* mutant: the GraphHopper block placed before the ORS block
StageOrder_gh_first == <<"gh", "ors", "rank">>

\* the order of the blocks of get_best_route after the provider choice
StageOrder == <<"ors", "gh", "rank">>

NextStage(stage) ==
    LET i == CHOOSE j \in 1..Len(StageOrder) : StageOrder[j] = stage
    IN  IF i < Len(StageOrder) THEN StageOrder[i + 1] ELSE "rank"

\* mutant: the score without the deviation
route_score_grouped(route) ==
    LET deviation == Abs(route.distance - distance_m)
    IN  <<IF WithinTolerance(deviation) THEN 0 ELSE 1, 0>>

\* route_score: (0 if within tolerance else 1, deviation)
route_score(route) ==
    LET deviation == Abs(route.distance - distance_m)
    IN  <<IF WithinTolerance(deviation) THEN 0 ELSE 1, deviation>>

\* mutant: a <= b, which puts a later route before its equals
ScoreLess_or_equal(a, b) == a[1] < b[1] \/ (a[1] = b[1] /\ a[2] <= b[2])

\* tuple comparison a < b
ScoreLess(a, b) == a[1] < b[1] \/ (a[1] = b[1] /\ a[2] < b[2])

RECURSIVE Insert(_, _)
\* r placed after every element that does not score higher (stable)
Insert(sorted, r) ==
    IF sorted = << >> THEN <<r>>
    ELSE IF ScoreLess(route_score(r), route_score(Head(sorted)))
         THEN <<r>> \o sorted
         ELSE <<Head(sorted)>> \o Insert(Tail(sorted), r)

\* mutant: the routes left in the order of their arrival
SortRoutes_unsorted(rs) == rs

RECURSIVE SortRoutes(_)
\* routes.sort(key=route_score)
SortRoutes(rs) ==
    IF rs = << >> THEN << >>
    ELSE Insert(SortRoutes(SubSeq(rs, 1, Len(rs) - 1)), rs[Len(rs)])

\* "if x_route: routes.append(x_route)"
Appended(rs, route) == IF route = NoRoute THEN rs ELSE Append(rs, route)

\* a payload that carries a distance and a geometry of at least 2 points
Complete(r) == r.kind = "ok" /\ r.dist # Missing /\ r.hasCoords /\ Len(r.coords) >= 2

Count(r, name) ==
    /\ calls' = [calls EXCEPT ![name] = @ + 1]
    /\ allFailed' = [allFailed EXCEPT ![name] = @ /\ r.kind # "ok"]
    /\ anyGood' = (anyGood \/ Complete(r))
    /\ lastKind' = r.kind

\* a pure backend answers a provider's request for a seed as it did before
Consistent(name, sd, r) ==
    \A a \in answered : (a[1] = name /\ a[2] = sd) => a[3] = r

\* the round_trip request of one attempt, answered by r
Ask(name, r) ==
    \E sd \in RouteSeeds(seed, attempt) :
        /\ request' = IF name = "ORS"
                      THEN [provider |-> name, seed |-> sd,
                            length |-> distance_m, points |-> num_points,
                            via |-> NoVia]
                      ELSE [provider |-> name, seed |-> sd,
                            length |-> round_trip_distance(attempt),
                            points |-> Missing, via |-> NoVia]
        /\ seeds' = Append(seeds, sd)
        /\ IF backend = "pure"
           THEN /\ Consistent(name, sd, r)
                /\ answered' = answered \cup {<<name, sd, r>>}
           ELSE UNCHANGED answered

\* a point-to-point request: it carries no seed
AskDirections(name) ==
    /\ request' = [provider |-> name, seed |-> Missing, length |-> Missing,
                   points |-> Missing, via |-> NoVia]
    /\ UNCHANGED <<seeds, answered>>

\* ---------------------------------------------------- create_cache_key

\* floats are tenths: 50 is 5.0.  Strings are sequences of tokens, a token
\* being a character or a whole word.
Digit == <<"0", "1", "2", "3", "4", "5", "6", "7", "8", "9">>

RECURSIVE Digits(_)
Digits(n) ==
    IF n < 10 THEN <<Digit[n + 1]>>
    ELSE Digits(n \div 10) \o <<Digit[(n % 10) + 1]>>

\* str() of an int
IntStr(n) == IF n < 0 THEN <<"-">> \o Digits(0 - n) ELSE Digits(n)

\* str() of a float with one decimal
FloatStr(t) ==
    (IF t < 0 THEN <<"-">> ELSE << >>)
    \o Digits(Abs(t) \div 10) \o <<".">> \o <<Digit[(Abs(t) % 10) + 1]>>

RECURSIVE Joined(_, _)
\* ", ".join(items)
Joined(items, sep) ==
    IF items = << >> THEN << >>
    ELSE IF Len(items) = 1 THEN items[1]
    ELSE items[1] \o sep \o Joined(Tail(items), sep)

\* str() of a list of floats, and of a list of such lists
ListStr(items) == <<"[">> \o Joined(items, <<",", " ">>) \o <<"]">>

CoordinatesStr(coordinates) ==
    ListStr([i \in 1..Len(coordinates) |->
                ListStr([j \in 1..Len(coordinates[i]) |-> FloatStr(coordinates[i][j])])])

\* hashlib.md5(...).hexdigest(), taken to be free of collisions: the digest
\* stands for the string it was made of
hexdigest(key_str) == <<"md5">> \o key_str

\* mutant: the key of main.py, made without seed and provider
create_cache_key_short(a) ==
    hexdigest(Joined(<<CoordinatesStr(a.coordinates), FloatStr(a.distance),
                       <<a.mode>>, FloatStr(a.tolerance)>>, <<"_">>))

\* f"{coordinates}_{distance}_{mode}_{tolerance}_{seed}_{provider}"
create_cache_key(a) ==
    hexdigest(Joined(<<CoordinatesStr(a.coordinates), FloatStr(a.distance),
                       <<a.mode>>, FloatStr(a.tolerance), IntStr(a.seed),
                       <<a.provider>>>>, <<"_">>))

\* [lon, lat] lists: one point, its numbers swapped, two points, the two
\* points in the other order
CoordinateLists ==
    {<<<<181, 593>>>>, <<<<593, 181>>>>,
     <<<<181, 593>>, <<190, 600>>>>, <<<<190, 600>>, <<181, 593>>>>}

KeyArgs ==
    [coordinates : CoordinateLists, distance : {50, 100}, mode : Modes,
     tolerance : {50, 100}, seed : {0, 1, 42}, provider : {"auto", "both"}]

\* no create_cache_key call: _cache_key has its default, ""
NoKey == << >>

DefaultKeyArgs ==
    [coordinates |-> <<<<181, 593>>>>, distance |-> 50, mode |-> "loop",
     tolerance |-> 50, seed |-> 0, provider |-> "auto"]

Unkeyed ==
    /\ key_args = DefaultKeyArgs
    /\ _cache_key = NoKey
    /\ other_args = DefaultKeyArgs
    /\ other_key = NoKey

\* ------------------------------------------------------- st.cache_data

\* mutant: _cache_key is hashed too
Args_with_key ==
    <<start, end, distance_km, tolerance_percent, mode, seed, selector,
      _cache_key>>

\* the arguments st.cache_data hashes: all but _cache_key
Args == <<start, end, distance_km, tolerance_percent, mode, seed, selector>>

\* mutant: an entry that never expires
Fresh_forever(entry) == TRUE

\* an entry lives for less than CACHE_TTL seconds
Fresh(entry) == now - entry.time < CACHE_TTL

\* the live entries of the arguments a
Lookup(a) == {e \in cache : e.args = a /\ Fresh(e)}

\* mutant: None is not memoized
Stored_routes(value) ==
    IF value = NoRoute THEN cache
    ELSE {e \in cache : e.args # Args}
            \cup {[args |-> Args, value |-> value, time |-> now]}

\* the return value is memoized under the arguments of the call
Stored(value) ==
    {e \in cache : e.args # Args} \cup {[args |-> Args, value |-> value, time |-> now]}

\* ------------------------------------------------------------ the call

\* nothing searched, requested or returned yet
Cleared ==
    /\ provider = selector
    /\ attempt = 0
    /\ best_route = NoData
    /\ best_deviation = Infinity
    /\ found_within_tolerance = FALSE
    /\ least = Infinity
    /\ earliest = NoData
    /\ routes = << >>
    /\ result = NoRoute
    /\ calls = [n \in Providers |-> 0]
    /\ allFailed = [n \in Providers |-> TRUE]
    /\ anyGood = FALSE
    /\ lastKind = "none"
    /\ request = NoRequest
    /\ seeds = << >>

\* the state in which the body of get_best_route starts
Begin == Cleared /\ pc = "select"

\* no call before, an empty cache
EmptySession ==
    /\ answered = {}
    /\ run = 1
    /\ previous = NoPrevious
    /\ cache = {}
    /\ computed = 0
    /\ now = 0

\* no function of utils.py is being called
Uncalled == args = << >> /\ returned = << >>

\* get_route_ors of main.py is not being called
NoDetour == feature = NoData /\ via_points = << >> /\ via = 0

\* the first call, on an empty cache, with the default _cache_key
FirstCall == Begin /\ EmptySession /\ Unkeyed /\ Uncalled /\ NoDetour

Init ==
    /\ start = Stockholm
    /\ seed = 1
    /\ backend = "any"
    /\ selector \in Selectors
    /\ orsKey \in BOOLEAN
    /\ ghKey \in BOOLEAN
    /\ mode \in Modes
    /\ end \in BOOLEAN
    /\ (mode = "loop" => ~end)
    /\ distance_km \in DistancesKm
    /\ tolerance_percent \in TolerancePercents
    /\ FirstCall

\* a search starts: best_route = None, best_deviation = inf, ...
StartSearch ==
    /\ attempt' = 0
    /\ best_route' = NoData
    /\ best_deviation' = Infinity
    /\ found_within_tolerance' = FALSE
    /\ least' = Infinity
    /\ earliest' = NoData

\* a successful attempt of a search: its payload and its deviation
Seen(r, deviation) ==
    /\ least' = IF deviation < least THEN deviation ELSE least
    /\ earliest' = IF deviation < least THEN r ELSE earliest

\* get_best_route, the provider choice
SelectProvider ==
    /\ pc = "select"
    /\ IF selector = "auto"
       THEN LET chosen == AutoProvider(ghKey, orsKey)
            IN  IF chosen = "none"
                THEN /\ result' = NoRoute
                     /\ cache' = Stored(NoRoute)
                     /\ computed' = now
                     /\ pc' = "done"
                     /\ UNCHANGED provider
                ELSE /\ provider' = chosen
                     /\ pc' = StageOrder[1]
                     /\ UNCHANGED <<result, memo>>
       ELSE /\ pc' = StageOrder[1]
            /\ UNCHANGED <<provider, result, memo>>
    /\ UNCHANGED <<inputs, search, routes, ghost, asked, session>>

\* the ORS block of get_best_route up to the first request of
\* OpenRouteServiceProvider.get_route
OrsGetRoute ==
    /\ pc = "ors"
    /\ IF UsesOrs(provider) /\ Configured(orsKey)
       THEN IF mode = "loop"
            THEN pc' = "ors_loop" /\ StartSearch
            ELSE /\ pc' = IF HasEnd(end) THEN "ors_p2p" ELSE NextStage("ors")
                 /\ UNCHANGED search
       ELSE pc' = NextStage("ors") /\ UNCHANGED search
    /\ UNCHANGED <<inputs, provider, routes, result, ghost, asked, session, memo>>

\* a provider's get_route returns route into get_best_route ("if x_route:
\* routes.append(x_route)"), or an exception leaves get_best_route
Deliver(route, stage) ==
    IF route = Raised
    THEN pc' = "raised" /\ UNCHANGED routes
    ELSE routes' = Appended(routes, route) /\ pc' = NextStage(stage)

\* one iteration of the for loop of _find_best_loop_route; after the last
\* one, the return through get_route into routes
OrsLoopAttempt(r) ==
    /\ pc = "ors_loop"
    /\ Count(r, "ORS")
    /\ Ask("ORS", r)
    /\ IF OrsCandidate(r) THEN Seen(r, Abs(r.dist - distance_m))
                          ELSE UNCHANGED <<least, earliest>>
    /\ LET held == OrsHeldAfter(r)
       IN  /\ best_route' = held.best_route
           /\ best_deviation' = held.best_deviation
           /\ found_within_tolerance' = held.found_within_tolerance
           /\ IF OrsBreaks(r) \/ LastAttempt(attempt, MAX_ROUTE_ATTEMPTS)
              THEN /\ IF held.best_route = NoData
                      THEN Deliver(NoRoute, "ors")
                      ELSE Deliver(_parse_ors_response(held.best_route), "ors")
                   /\ UNCHANGED attempt
              ELSE /\ attempt' = attempt + 1
                   /\ UNCHANGED <<routes, pc>>
    /\ UNCHANGED <<inputs, provider, result, session, memo>>

\* _get_point_to_point_route and the return through get_route
OrsPointToPoint(r) ==
    /\ pc = "ors_p2p"
    /\ Count(r, "ORS")
    /\ AskDirections("ORS")
    /\ IF r.kind \in {"ok", "empty"}
       THEN Deliver(_parse_ors_response(r), "ors")
       ELSE Deliver(NoRoute, "ors")
    /\ UNCHANGED <<inputs, provider, search, result, session, memo>>

\* _get_round_trip, before its loop and outside every try:
\* tolerance_percent = (tolerance_m / distance_m) * 100 raises
\* ZeroDivisionError for a target of 0
ToleranceRaises == distance_m = 0

\* the GraphHopper block of get_best_route up to the first request of
\* GraphHopperProvider.get_route
GhGetRoute ==
    /\ pc = "gh"
    /\ IF UsesGraphHopper(provider) /\ Configured(ghKey)
       THEN IF mode = "loop"
            THEN IF ToleranceRaises
                 THEN pc' = "raised" /\ UNCHANGED search
                 ELSE pc' = "gh_loop" /\ StartSearch
            ELSE /\ pc' = IF HasEnd(end) THEN "gh_p2p" ELSE NextStage("gh")
                 /\ UNCHANGED search
       ELSE pc' = NextStage("gh") /\ UNCHANGED search
    /\ UNCHANGED <<inputs, provider, routes, result, ghost, asked, session, memo>>

\* one iteration of the for loop of _get_round_trip; after the last one,
\* the parse of best_route and the return into routes
GhLoopAttempt(r) ==
    /\ pc = "gh_loop"
    /\ Count(r, "GraphHopper")
    /\ Ask("GraphHopper", r)
    /\ IF GhCandidate(r) THEN Seen(r, Abs(GetDistance(r) - distance_m))
                         ELSE UNCHANGED <<least, earliest>>
    /\ LET held == GhHeldAfter(r)
       IN  /\ best_route' = held.best_route
           /\ best_deviation' = held.best_deviation
           /\ found_within_tolerance' = held.found_within_tolerance
           /\ IF GhBreaks(r) \/ LastAttempt(attempt, max_attempts)
              THEN /\ IF held.best_route = NoData
                      THEN Deliver(NoRoute, "gh")
                      ELSE Deliver(_parse_graphhopper_response(held.best_route), "gh")
                   /\ UNCHANGED attempt
              ELSE /\ attempt' = attempt + 1
                   /\ UNCHANGED <<routes, pc>>
    /\ UNCHANGED <<inputs, provider, result, session, memo>>

\* what "except Exception: pass" makes of the parse
Caught(route) == IF route = Raised THEN NoRoute ELSE route

\* _get_point_to_point: the parse is inside the try
GhPointToPoint(r) ==
    /\ pc = "gh_p2p"
    /\ Count(r, "GraphHopper")
    /\ AskDirections("GraphHopper")
    /\ IF r.kind \in {"ok", "empty"}
       THEN Deliver(Caught(_parse_graphhopper_response(r)), "gh")
       ELSE Deliver(NoRoute, "gh")
    /\ UNCHANGED <<inputs, provider, search, result, session, memo>>

\* route_score subtracts from route.distance: TypeError when it is None
Sortable(rs) == \A i \in 1..Len(rs) : rs[i].distance # Null

\* the ranking and the return of get_best_route; the decorator memoizes
\* the value returned.  pc = "raised": an exception left a provider's
\* get_route; pc = "sort_raised": one left routes.sort
ReturnBest ==
    /\ pc = "rank"
    /\ IF Len(routes) > 1 /\ ~Sortable(routes)
       THEN /\ pc' = "sort_raised"
            /\ UNCHANGED <<routes, result, memo>>
       ELSE /\ routes' = IF Len(routes) > 1 THEN SortRoutes(routes) ELSE routes
            /\ result' = IF routes' # << >> THEN routes'[1] ELSE NoRoute
            /\ cache' = Stored(result')
            /\ computed' = now
            /\ pc' = "done"
    /\ UNCHANGED <<inputs, provider, search, ghost, asked, session>>

Next ==
    \/ SelectProvider
    \/ OrsGetRoute
    \/ \E r \in Answers(backend, distance_m) : OrsLoopAttempt(r)
    \/ \E r \in Answers(backend, distance_m) : OrsPointToPoint(r)
    \/ GhGetRoute
    \/ \E r \in Answers(backend, distance_m) : GhLoopAttempt(r)
    \/ \E r \in Answers(backend, distance_m) : GhPointToPoint(r)
    \/ ReturnBest

Spec == Init /\ [][Next]_vars

\* one call with any start coordinate, against a backend whose payloads
\* may be malformed
InitAnyInput ==
    /\ start \in Coordinates
    /\ seed = 1
    /\ backend = "malformed"
    /\ selector \in Selectors
    /\ orsKey \in BOOLEAN
    /\ ghKey \in BOOLEAN
    /\ mode \in Modes
    /\ end \in BOOLEAN
    /\ (mode = "loop" => ~end)
    /\ distance_km = 1
    /\ tolerance_percent = 5
    /\ FirstCall

SpecAnyInput == InitAnyInput /\ [][Next]_vars

\* targets whose requests show the arithmetic of the loop searches: 3 km
\* and 7 km
RequestDistancesKm == {3, 7}

\* calls of one provider for these targets
InitRequests ==
    /\ start = Stockholm
    /\ seed = 1
    /\ backend = "any"
    /\ selector \in {"ors", "graphhopper"}
    /\ orsKey \in BOOLEAN
    /\ ghKey \in BOOLEAN
    /\ mode \in Modes
    /\ end \in BOOLEAN
    /\ (mode = "loop" => ~end)
    /\ distance_km \in RequestDistancesKm
    /\ tolerance_percent = 5
    /\ FirstCall

SpecRequests == InitRequests /\ [][Next]_vars

\* calls of one provider for a target of 0 km, and of 1 km
InitZero ==
    /\ start = Stockholm
    /\ seed = 1
    /\ backend = "any"
    /\ selector \in {"ors", "graphhopper"}
    /\ orsKey \in BOOLEAN
    /\ ghKey \in BOOLEAN
    /\ mode \in Modes
    /\ end \in BOOLEAN
    /\ (mode = "loop" => ~end)
    /\ distance_km \in {0, 1}
    /\ tolerance_percent = 5
    /\ FirstCall

SpecZero == InitZero /\ [][Next]_vars

\* ------------------------------------------- create_cache_key, called twice

InitKey ==
    /\ start = Stockholm
    /\ seed = 0
    /\ backend = "any"
    /\ selector = "auto"
    /\ orsKey = TRUE
    /\ ghKey = TRUE
    /\ mode = "loop"
    /\ end = FALSE
    /\ distance_km = 5
    /\ tolerance_percent = 5
    /\ Cleared
    /\ EmptySession
    /\ pc = "key"
    /\ Uncalled
    /\ NoDetour
    /\ key_args \in KeyArgs
    /\ other_args = key_args
    /\ _cache_key = NoKey
    /\ other_key = NoKey


KeyRest == <<start, seed, backend, selector, orsKey, ghKey, mode, end,
             distance_km, tolerance_percent, provider, search, routes, result,
             ghost, asked, session, memo, calling, detour>>

CreateCacheKey ==
    /\ pc = "key"
    /\ _cache_key' = create_cache_key(key_args)
    /\ pc' = "other_key"
    /\ UNCHANGED <<key_args, other_args, other_key, KeyRest>>

CreateOtherCacheKey ==
    /\ pc = "other_key"
    /\ \E a \in KeyArgs :
          /\ other_args' = a
          /\ other_key' = create_cache_key(a)
    /\ pc' = "keyed"
    /\ UNCHANGED <<key_args, _cache_key, KeyRest>>

NextKey == CreateCacheKey \/ CreateOtherCacheKey

SpecKey == InitKey /\ [][NextKey]_vars

\* --------------------------------------------- the functions of utils.py

\* get_best_route at rest: nothing of it moves while a function of
\* utils.py is called
Parked ==
    /\ start = Stockholm
    /\ seed = 0
    /\ backend = "any"
    /\ selector = "auto"
    /\ orsKey = TRUE
    /\ ghKey = TRUE
    /\ mode = "loop"
    /\ end = FALSE
    /\ distance_km = 5
    /\ tolerance_percent = 5
    /\ Cleared
    /\ EmptySession
    /\ Unkeyed
    /\ NoDetour

Rest == <<start, seed, backend, selector, orsKey, ghKey, mode, end,
          distance_km, tolerance_percent, provider, search, routes, result,
          ghost, asked, session, memo, keying, detour>>

\* elevations of route points: None, below and at sea level, above it
Elevations == {Missing, 0 - 5, 0, 5, 10}

\* the sequences over S of a length up to n
RECURSIVE SeqsUpTo(_, _)
SeqsUpTo(S, n) ==
    IF n = 0 THEN {<< >>}
    ELSE LET shorter == SeqsUpTo(S, n - 1)
         IN  shorter \cup {Append(q, x) : q \in shorter, x \in S}

\* point sequences of up to MaxPoints points
PointSequences ==
    {[i \in 1..Len(es) |-> RoutePoint(0, es[i])] : es \in SeqsUpTo(Elevations, MaxPoints)}

RECURSIVE Descent_from_first(_, _)
\* mutant: every elevation measured against the first one
Descent_from_first(elevations, prev) ==
    IF elevations = << >> THEN 0
    ELSE LET e == Head(elevations)
             first == IF prev = Missing THEN e ELSE prev
         IN  (IF e < first THEN first - e ELSE 0)
             + Descent_from_first(Tail(elevations), first)

RECURSIVE Descent(_, _)
\* the for loop of get_route_statistics over elevations; prev is
\* prev_elevation
Descent(elevations, prev) ==
    IF elevations = << >> THEN 0
    ELSE LET e == Head(elevations)
         IN  (IF prev # Missing /\ e < prev THEN prev - e ELSE 0)
             + Descent(Tail(elevations), e)

\* [p.elevation for p in points if p.elevation is not None]
ElevationsOf(points) ==
    LET HasElevation(p) == p.elevation # Missing
        present == SelectSeq(points, HasElevation)
    IN  [i \in 1..Len(present) |-> present[i].elevation]

\* get_route_statistics: the statistics computed from the points
get_route_statistics(route_info) ==
    LET elevations == ElevationsOf(route_info.points)
    IN  [distance_m |-> route_info.distance,
         elevation_gain |-> route_info.elevation_gain,
         elevation_loss |-> IF elevations # << >> THEN Descent(elevations, Missing) ELSE 0,
         num_points |-> Len(route_info.points),
         provider |-> route_info.provider]

\* pace strings are sequences of characters
PaceCharacters == {"5", "9", "0", ":", "x", "-"}

PaceStrings == SeqsUpTo(PaceCharacters, MaxPaceLen)

RECURSIVE Split(_, _)
\* s.split(sep): the parts of s between the separators
Split(s, sep) ==
    IF \A i \in 1..Len(s) : s[i] # sep THEN <<s>>
    ELSE LET i == CHOOSE j \in 1..Len(s) :
                      s[j] = sep /\ \A k \in 1..(j - 1) : s[k] # sep
         IN  <<SubSeq(s, 1, i - 1)>> \o Split(SubSeq(s, i + 1, Len(s)), sep)

DigitValue(c) == CHOOSE d \in 0..9 : Digit[d + 1] = c

IsDigits(s) == s # << >> /\ \A i \in 1..Len(s) : \E d \in 0..9 : Digit[d + 1] = s[i]

\* int(s) raises ValueError unless s is digits with an optional sign
IsInt(s) ==
    \/ IsDigits(s)
    \/ s # << >> /\ Head(s) = "-" /\ IsDigits(Tail(s))

RECURSIVE DigitsValue(_)
DigitsValue(s) ==
    IF s = << >> THEN 0
    ELSE 10 * DigitsValue(SubSeq(s, 1, Len(s) - 1)) + DigitValue(s[Len(s)])

\* int(s)
IntOf(s) == IF Head(s) = "-" THEN 0 - DigitsValue(Tail(s)) ELSE DigitsValue(s)

\* paces are sixtieths of a minute per km: 5.5 is 330
DefaultPace == 330

\* mutant: seconds outside 0..59 are refused
parse_pace_checked(pace_str) ==
    LET parts == Split(pace_str, ":")
    IN  IF Len(parts) = 2 /\ IsInt(parts[1]) /\ IsInt(parts[2])
           /\ IntOf(parts[2]) \in 0..59
        THEN 60 * IntOf(parts[1]) + IntOf(parts[2])
        ELSE DefaultPace

\* minutes + seconds / 60 when both int() succeed, else (also on any
\* exception: "except: pass") the default
parse_pace(pace_str) ==
    LET parts == Split(pace_str, ":")
    IN  IF Len(parts) = 2 /\ IsInt(parts[1]) /\ IsInt(parts[2])
        THEN 60 * IntOf(parts[1]) + IntOf(parts[2])
        ELSE DefaultPace

\* a call of parse_pace
CallParsePace ==
    /\ pc = "parse_pace"
    /\ returned' = parse_pace(args)
    /\ pc' = "pace_returned"
    /\ UNCHANGED <<args, Rest>>


\* a call of calculate_elevation_gain
CallElevationGain ==
    /\ pc = "calculate_elevation_gain"
    /\ returned' = calculate_elevation_gain(args)
    /\ pc' = "gain_returned"
    /\ UNCHANGED <<args, Rest>>

\* a call of get_route_statistics
CallRouteStatistics ==
    /\ pc = "get_route_statistics"
    /\ returned' = get_route_statistics(args)
    /\ pc' = "statistics_returned"
    /\ UNCHANGED <<args, Rest>>

InitUtils ==
    /\ Parked
    /\ returned = << >>
    /\ \/ pc = "calculate_elevation_gain" /\ args \in PointSequences
       \/ /\ pc = "get_route_statistics"
          /\ args \in {RouteInfo("ORS", 1000, calculate_elevation_gain(ps), ps) :
                         ps \in PointSequences}
       \/ pc = "parse_pace" /\ args \in PaceStrings

NextUtils == CallElevationGain \/ CallRouteStatistics \/ CallParsePace

SpecUtils == InitUtils /\ [][NextUtils]_vars

\* ------------------------------------------------- calls, one after another

TickSeconds == CACHE_TTL \div 2

\* time passes between two calls
Tick ==
    /\ pc = "done"
    /\ now < MaxTicks * TickSeconds
    /\ now' = now + TickSeconds
    /\ UNCHANGED <<inputs, provider, search, routes, result, pc, ghost, asked,
                   run, previous, memo>>

\* get_best_route is called again with the same hashed arguments, with
\* _cache_key = key and with the secrets ors and gh configured: the
\* decorator returns the memoized value of a live entry, or runs the body
CallWith(key, ors, gh) ==
    /\ pc = "done"
    /\ run < MaxCalls
    /\ run' = run + 1
    /\ previous' = [result |-> result, seeds |-> seeds,
                    calls |-> calls["ORS"] + calls["GraphHopper"],
                    age |-> now - computed,
                    key |-> _cache_key, ors |-> orsKey, gh |-> ghKey]
    /\ _cache_key' = key
    /\ orsKey' = ors
    /\ ghKey' = gh
    /\ calls' = [n \in Providers |-> 0]
    /\ allFailed' = [n \in Providers |-> TRUE]
    /\ anyGood' = FALSE
    /\ lastKind' = "none"
    /\ request' = NoRequest
    /\ provider' = selector
    /\ routes' = << >>
    /\ StartSearch
    /\ UNCHANGED <<start, seed, backend, selector, mode, end, distance_km,
                   tolerance_percent, key_args, other_args, other_key,
                   calling, detour, answered, memo, now>>
    /\ IF Lookup(Args') # {}
       THEN /\ result' = (CHOOSE e \in Lookup(Args') : TRUE).value
            /\ pc' = "done"
            /\ UNCHANGED seeds
       ELSE /\ result' = NoRoute
            /\ pc' = "select"
            /\ seeds' = << >>

\* get_best_route is called again with the same arguments
Call == CallWith(_cache_key, orsKey, ghKey)

NextSession == Next \/ Tick \/ Call

\* the provider and the seed passed by the caller: a positive seed for
\* each provider, and a negative one
SeededSearches ==
    {<<"ors", 1>>, <<"graphhopper", 1>>, <<"graphhopper", 0>>,
     <<"graphhopper", 0 - 1>>}

\* calls with the same arguments, repeated over time, against a backend
\* that is a pure function of the provider and the seed of a request
InitSession ==
    /\ start = Stockholm
    /\ \E ss \in SeededSearches : selector = ss[1] /\ seed = ss[2]
    /\ backend = "pure"
    /\ orsKey \in BOOLEAN
    /\ ghKey \in BOOLEAN
    /\ mode \in Modes
    /\ end \in BOOLEAN
    /\ (mode = "loop" => ~end)
    /\ distance_km = 5
    /\ tolerance_percent = 5
    /\ FirstCall

SpecSession == InitSession /\ [][NextSession]_vars

\* the values of _cache_key: the default, and the key main.py makes
CacheKeys == {NoKey, create_cache_key(DefaultKeyArgs)}

\* get_best_route is called again with the same hashed arguments, any
\* _cache_key and any configuration of the secrets
Recall ==
    \E key \in CacheKeys, ors \in BOOLEAN, gh \in BOOLEAN :
        CallWith(key, ors, gh)

NextRecall == Next \/ Recall

\* calls of one provider that differ in _cache_key and in the secrets
\* only, the later one made before the entry of the earlier one expires
InitRecall ==
    /\ start = Stockholm
    /\ seed = 1
    /\ selector \in {"ors", "graphhopper"}
    /\ backend = "pure"
    /\ orsKey \in BOOLEAN
    /\ ghKey \in BOOLEAN
    /\ mode \in Modes
    /\ end \in BOOLEAN
    /\ (mode = "loop" => ~end)
    /\ distance_km = 5
    /\ tolerance_percent = 5
    /\ FirstCall

SpecRecall == InitRecall /\ [][NextRecall]_vars

\* ------------------------------------------------ main.py: get_route_ors

\* calculate_via_points(start, end, target_distance, current_distance):
\* four points around the midpoint of start and end
calculate_via_points(target_distance, current_distance) ==
    LET extra_distance == Abs(target_distance - current_distance)
    IN  <<ViaPoint(0, extra_distance), ViaPoint(90, extra_distance),
          ViaPoint(180, extra_distance), ViaPoint(270, extra_distance)>>

\* mutant: every via point is tried
Submitted_all(points) == points

\* via_points[:2]
Submitted(points) == SubSeq(points, 1, Min(2, Len(points)))

\* the extraction of the RouteInfo at the end of get_route_ors; an
\* exception in it ends in "except Exception" and None is returned
ExtractRoute(d) ==
    IF d.kind # "ok" THEN NoRoute
    ELSE IF d.ascent = Null \/ d.dist = Null THEN NoRoute
    ELSE LET points == ParsedPoints(d)
             distance == IF GetDistance(d) = 0 /\ points # << >>
                         THEN calculate_distance_from_points(points)
                         ELSE GetDistance(d)
         IN  RouteInfo("ORS", distance, ElevationGain(d, points), points)

DetourRest == <<start, seed, backend, selector, orsKey, ghKey, mode, end,
                distance_km, tolerance_percent, keying, calling, provider,
                search, routes, seeds, answered, session, memo>>

\* the entry of get_route_ors: no key or no end, and None is returned
GetRouteOrs ==
    /\ pc = "get_route_ors"
    /\ pc' = IF ~orsKey \/ (mode = "point-to-point" /\ ~end)
             THEN "returned" ELSE "first_request"
    /\ UNCHANGED <<DetourRest, detour, result, ghost, request>>

\* the first request and what follows it up to the via points or the
\* return.  The feature of a payload is taken to have "properties".
FirstRequest(r) ==
    /\ pc = "first_request"
    /\ Count(r, "ORS")
    /\ request' = IF mode = "loop"
                  THEN [provider |-> "ORS", seed |-> 42, length |-> distance_m,
                        points |-> 3, via |-> NoVia]
                  ELSE [provider |-> "ORS", seed |-> Missing,
                        length |-> Missing, points |-> Missing,
                        via |-> NoVia]
    /\ IF r.kind # "ok"
       THEN pc' = "returned" /\ UNCHANGED <<detour, result>>
       ELSE /\ feature' = r
            /\ via' = 0
            /\ IF mode = "point-to-point" /\ r.dist = Null
               THEN pc' = "returned" /\ UNCHANGED <<via_points, result>>
               ELSE IF /\ mode = "point-to-point"
                       /\ ~WithinTolerance(Abs(GetDistance(r) - distance_m))
               THEN /\ via_points' =
                           calculate_via_points(distance_m, GetDistance(r))
                    /\ pc' = "via"
                    /\ UNCHANGED result
               ELSE /\ result' = ExtractRoute(r)
                    /\ pc' = "returned"
                    /\ UNCHANGED via_points
    /\ UNCHANGED DetourRest

\* one iteration of "for via in via_points[:2]": the request through the
\* via point and, after the last iteration or the break, the return.
\* Every 200 response replaces data, with or without features, and the
\* extraction after the loop reads data["features"].
ViaRequest(r) ==
    /\ pc = "via"
    /\ Count(r, "ORS")
    /\ request' = [provider |-> "ORS", seed |-> Missing, length |-> Missing,
                   points |-> Missing,
                   via |-> Submitted(via_points)[via + 1]]
    /\ via' = via + 1
    /\ IF r.kind = "exception"
       THEN pc' = "returned" /\ UNCHANGED <<feature, result>>
       ELSE /\ feature' = IF r.kind \in {"ok", "empty"} THEN r ELSE feature
            /\ IF r.kind = "ok" /\ r.dist = Null
               THEN pc' = "returned" /\ UNCHANGED result
               ELSE IF \/ /\ r.kind = "ok"
                          /\ WithinTolerance(Abs(GetDistance(r) - distance_m))
                       \/ via + 1 >= Len(Submitted(via_points))
               THEN /\ result' = ExtractRoute(feature')
                    /\ pc' = "returned"
               ELSE pc' = "via" /\ UNCHANGED result
    /\ UNCHANGED <<DetourRest, via_points>>

\* a call of get_best_route or a call of get_route_ors
InitDetour ==
    /\ start = Stockholm
    /\ seed = 1
    /\ backend = "any"
    /\ selector \in Selectors
    /\ orsKey \in BOOLEAN
    /\ ghKey \in BOOLEAN
    /\ mode \in Modes
    /\ end \in BOOLEAN
    /\ (mode = "loop" => ~end)
    /\ distance_km = 1
    /\ tolerance_percent = 5
    /\ Cleared
    /\ EmptySession
    /\ Unkeyed
    /\ Uncalled
    /\ NoDetour
    /\ pc \in {"select", "get_route_ors"}
    /\ (pc = "get_route_ors" => selector = "ors" /\ ~ghKey)

NextDetour ==
    \/ Next
    \/ GetRouteOrs
    \/ \E r \in Answers(backend, distance_m) : FirstRequest(r)
    \/ \E r \in Answers(backend, distance_m) : ViaRequest(r)

SpecDetour == InitDetour /\ [][NextDetour]_vars

\* ------------------------------------------------------------ the claims

InLoop == pc \in {"ors_loop", "gh_loop"}

Total == calls["ORS"] + calls["GraphHopper"]

\* the provider choice has been made and n is asked for a route
Queried(n) ==
    /\ pc # "select"
    /\ IF n = "ORS" THEN UsesOrs(provider) /\ orsKey
                    ELSE UsesGraphHopper(provider) /\ ghKey

From(n) == {i \in 1..Len(routes) : routes[i].provider = n}

\* a response that carries a distance within 1% of the target
WithinOnePercent(r) ==
    /\ r.kind = "ok"
    /\ r.dist # Missing
    /\ 100 * Abs(r.dist - distance_m) <= distance_m

\* a response the search counts as a failed attempt
FailedAttempt(r) == r.kind \in {"exception", "non200", "empty"}

\* C1: in both loop searches, for every target and every tolerance, an
\* attempt that returns a distance within 1% of the target is the last
\* request of that search.
C1_PerfectMatchStops ==
    [][\A r \in Responses(distance_m) :
        /\ (OrsLoopAttempt(r) /\ WithinOnePercent(r)) => pc' # "ors_loop"
        /\ (GhLoopAttempt(r) /\ WithinOnePercent(r)) => pc' # "gh_loop"]_vars

\* C2: in both loop searches no request is pending once a within-tolerance
\* candidate is held and 3 attempts have been made.
C2_StopsAfterThree == ~(InLoop /\ found_within_tolerance /\ attempt >= 3)

\* C3: a loop search whose every attempt failed has issued exactly
\* maxAttempts requests (10 for ORS, 5 for GraphHopper) and contributes no
\* route; when that holds of every queried provider the call returns None.
C3_AllFailedIsExhaustive ==
    (pc = "done" /\ mode = "loop") =>
        /\ (Queried("ORS") /\ allFailed["ORS"]) =>
               calls["ORS"] = 10 /\ From("ORS") = {}
        /\ (Queried("GraphHopper") /\ allFailed["GraphHopper"]) =>
               calls["GraphHopper"] = 5 /\ From("GraphHopper") = {}
        /\ (allFailed["ORS"] /\ allFailed["GraphHopper"]) => result = NoRoute

C3_Witness ==
    /\ pc = "done"
    /\ allFailed["ORS"] /\ calls["ORS"] = 10
    /\ allFailed["GraphHopper"] /\ calls["GraphHopper"] = 5
    /\ result = NoRoute

\* C4: a search never issues more than maxAttempts requests (10 for ORS, 5
\* for GraphHopper): a get_best_route call issues at most 15 in total, and
\* never has a request pending beyond the last attempt index.
C4_BoundedRequests ==
    /\ calls["ORS"] <= 10
    /\ calls["GraphHopper"] <= 5
    /\ Total <= 15
    /\ pc = "ors_loop" => attempt < 10 /\ calls["ORS"] = attempt
    /\ pc = "gh_loop" => attempt < 5 /\ calls["GraphHopper"] = attempt

C4_Witness == pc = "done" /\ Total = 15

\* C5: a failed attempt of a loop search (non-200, exception, payload
\* without features/paths) leaves best_route, best_deviation and
\* found_within_tolerance unchanged, and the next attempt follows unless the
\* attempts are used up or, in the ORS search, a within-tolerance candidate
\* is held after 3 attempts.
C5_FailureIsSkipped ==
    [][\A r \in Responses(distance_m) : FailedAttempt(r) =>
        /\ OrsLoopAttempt(r) =>
            /\ UNCHANGED <<best_route, best_deviation, found_within_tolerance>>
            /\ \/ pc' = "ors_loop" /\ attempt' = attempt + 1
               \/ attempt = 9
               \/ found_within_tolerance /\ attempt >= 2
        /\ GhLoopAttempt(r) =>
            /\ UNCHANGED <<best_route, best_deviation, found_within_tolerance>>
            /\ \/ pc' = "gh_loop" /\ attempt' = attempt + 1
               \/ attempt = 4]_vars

\* a failed attempt was made while a candidate was held, and the search goes on
C5_Witness ==
    /\ InLoop
    /\ lastKind \in {"exception", "non200", "empty"}
    /\ best_route # NoData
    /\ attempt >= 2

\* C6: get_best_route returns a route whenever some request of the call
\* returned a complete route payload.
C6_SuccessIsReturned == (pc = "done" /\ anyGood) => result # NoRoute

Deviation(route) == Abs(route.distance - distance_m)

\* 0 for a route within tolerance of the target, else 1
Group(route) ==
    IF 100 * Deviation(route) <= distance_m * tolerance_percent THEN 0 ELSE 1

\* C7: with two candidates the returned route is one of them, no candidate
\* is in a better group (within tolerance before outside) and none of its
\* own group has a smaller absolute deviation.
C7_RankedByGroupThenDeviation ==
    (pc = "done" /\ Len(routes) = 2) =>
        /\ \E i \in 1..2 : result = routes[i]
        /\ \A i \in 1..2 :
            /\ Group(result) <= Group(routes[i])
            /\ Group(result) = Group(routes[i])
                   => Deviation(result) <= Deviation(routes[i])

\* the GraphHopper candidate, within tolerance, is returned over the ORS
\* candidate, outside tolerance
C7_Witness ==
    /\ pc = "done"
    /\ Len(routes) = 2
    /\ result.provider = "GraphHopper"
    /\ Group(result) = 0
    /\ \E i \in 1..2 : routes[i].provider = "ORS" /\ Group(routes[i]) = 1

\* a request can be issued: loop mode, or point-to-point with an end
Routable == mode = "loop" \/ end

\* C8: with selector auto, GraphHopper alone is queried when its key is
\* configured, else ORS alone when its key is configured, else no request
\* is issued and the call fails.
C8_AutoPrefersGraphHopper ==
    selector = "auto" =>
        /\ ghKey => calls["ORS"] = 0
        /\ (~ghKey /\ orsKey) => calls["GraphHopper"] = 0
        /\ (~ghKey /\ ~orsKey) => Total = 0
        /\ pc = "done" =>
            /\ (ghKey /\ Routable) => calls["GraphHopper"] >= 1
            /\ (~ghKey /\ orsKey /\ Routable) => calls["ORS"] >= 1
            /\ (~ghKey /\ ~orsKey) => result = NoRoute

C8_Witness ==
    /\ selector = "auto" /\ ghKey /\ orsKey
    /\ pc = "done"
    /\ calls["GraphHopper"] >= 1
    /\ result # NoRoute

\* C9: with selector both and both keys, no ORS request follows a
\* GraphHopper request, the GraphHopper search starts with the ORS search
\* over, and a step issues at most one request.
C9_OrsBeforeGraphHopper ==
    [][(selector = "both" /\ orsKey /\ ghKey) =>
        /\ calls["GraphHopper"] > 0 => calls'["ORS"] = calls["ORS"]
        /\ calls'["GraphHopper"] > 0 => pc' \notin {"ors", "ors_loop", "ors_p2p"}
        /\ Total' <= Total + 1]_vars

C9_Witness ==
    /\ selector = "both"
    /\ calls["ORS"] >= 2
    /\ calls["GraphHopper"] >= 2

\* C10: with selector ors (graphhopper) no request goes to GraphHopper
\* (ORS); without the named provider's key no request is issued at all and
\* the call returns None.
C10_OnlyTheNamedProvider ==
    /\ selector = "ors" =>
        /\ calls["GraphHopper"] = 0
        /\ ~orsKey => Total = 0 /\ (pc = "done" => result = NoRoute)
        /\ (orsKey /\ Routable /\ pc = "done") => calls["ORS"] >= 1
    /\ selector = "graphhopper" =>
        /\ calls["ORS"] = 0
        /\ ~ghKey => Total = 0 /\ (pc = "done" => result = NoRoute)
        /\ (ghKey /\ Routable /\ pc = "done") => calls["GraphHopper"] >= 1

\* the named provider is queried while the other one's key is configured
C10_Witness ==
    /\ selector = "ors" /\ orsKey /\ ghKey
    /\ pc = "done"
    /\ calls["ORS"] >= 1

\* the named provider's key is missing and the call has returned
C10_WitnessNoKey ==
    /\ selector = "graphhopper" /\ ~ghKey /\ orsKey
    /\ pc = "done"

\* C11: without any provider key, get_best_route issues no request and
\* returns None, for every selector.
C11_NoCredentialsNoRequest ==
    (~orsKey /\ ~ghKey) => Total = 0 /\ (pc = "done" => result = NoRoute)

\* the call has returned for a selector that names a provider
C11_Witness == ~orsKey /\ ~ghKey /\ pc = "done" /\ selector = "both"

\* C12: in point-to-point mode without an end coordinate, get_best_route
\* issues no request and returns None, for every selector and every key
\* configuration.
C12_NoEndNoRequest ==
    (mode = "point-to-point" /\ ~end) =>
        Total = 0 /\ (pc = "done" => result = NoRoute)

\* both providers are configured and selected, and the call has returned
C12_Witness ==
    /\ mode = "point-to-point" /\ ~end
    /\ selector = "both" /\ orsKey /\ ghKey
    /\ pc = "done"

\* C14: a route returned by get_best_route has at least 2 points.
C14_AtLeastTwoPoints ==
    (pc = "done" /\ result # NoRoute) => Len(result.points) >= 2

\* C13: a start coordinate outside -90..90 / -180..180 is rejected by
\* get_best_route before any provider request is issued.
C13_OutOfRangeRejected ==
    ~validate_coordinates(start[1], start[2]) => Total = 0

\* C15: a route built from numeric distance and ascent values has a
\* distance >= 0 and an elevation gain >= 0.
C15_NonNegativeRoute ==
    \A i \in 1..Len(routes) :
        routes[i].distance # Null =>
            routes[i].distance >= 0 /\ routes[i].elevation_gain >= 0

\* the elevation gain alone is never negative
ElevationGainNonNegative ==
    \A i \in 1..Len(routes) : routes[i].elevation_gain >= 0

\* C20: whatever the backend answers (a malformed or empty payload, a
\* non-success status, a network error), no exception leaves a provider's
\* get_route.
C20_NeverRaises == pc # "raised"

\* C16: a get_best_route call with the arguments of an earlier one, made
\* less than CACHE_TTL after that one computed its result, returns that
\* result without a provider request; made later, it queries the
\* providers again.
C16_MemoizedWithinTtl ==
    run > 1 =>
        IF previous.age < CACHE_TTL
        THEN pc = "done" /\ result = previous.result /\ Total = 0
        ELSE (pc = "done" /\ previous.calls > 0) => Total > 0

C16_Witness ==
    /\ run > 1 /\ previous.age < CACHE_TTL /\ previous.age > 0
    /\ previous.calls > 0 /\ previous.result # NoRoute

C16_WitnessExpired ==
    /\ run > 1 /\ previous.age >= CACHE_TTL
    /\ pc = "done" /\ previous.calls > 0 /\ Total > 0
    /\ result # previous.result

FirstThree(name, distances) ==
    /\ run = 1
    /\ seed > 0
    /\ \A k \in 1..3 :
          \E a \in answered :
              /\ a[1] = name /\ a[2] = seed + (k - 1)
              /\ a[3].kind = "ok" /\ a[3].dist = distances[k]

\* C19: with target 5000 m and tolerance 5%, a provider that returns 5800,
\* 5100 and 4950 m is asked exactly 3 times; the search stops at the third
\* attempt and returns the 4950 m route.
C19_StopsAtThirdAttempt ==
    \A name \in Providers :
        (distance_m = 5000 /\ tolerance_percent = 5
            /\ FirstThree(name, <<5800, 5100, 4950>>)) =>
            /\ calls[name] = 3
            /\ ~InLoop
            /\ pc = "done" => (result.provider = name /\ result.distance = 4950)

C19_Witness ==
    /\ distance_m = 5000 /\ tolerance_percent = 5
    /\ FirstThree("GraphHopper", <<5800, 5100, 4950>>)
    /\ pc = "done" /\ result.distance = 4950

C19_WitnessOrs ==
    /\ distance_m = 5000 /\ tolerance_percent = 5
    /\ FirstThree("ORS", <<5800, 5100, 4950>>)
    /\ pc = "done" /\ result.distance = 4950

\* the arguments of create_cache_key
KeyFields == {"coordinates", "distance", "mode", "tolerance", "seed", "provider"}

\* the two calls differ in exactly the argument f
DiffersIn(f) ==
    /\ key_args[f] # other_args[f]
    /\ \A g \in KeyFields \ {f} : key_args[g] = other_args[g]

\* C17: two create_cache_key calls with identical arguments return the
\* same key, and two calls that differ in exactly one argument (the order
\* of the coordinates included) return different keys.
C17_KeyDeterministicAndSensitive ==
    pc = "keyed" =>
        /\ (key_args = other_args => _cache_key = other_key)
        /\ \A f \in KeyFields : DiffersIn(f) => _cache_key # other_key

C17_Witness ==
    /\ pc = "keyed"
    /\ DiffersIn("coordinates")
    /\ key_args.coordinates = <<<<181, 593>>, <<190, 600>>>>
    /\ other_args.coordinates = <<<<190, 600>>, <<181, 593>>>>
    /\ _cache_key # other_key

C17_WitnessSeed == pc = "keyed" /\ DiffersIn("seed") /\ _cache_key # other_key

C17_WitnessSame == pc = "keyed" /\ key_args = other_args /\ _cache_key = other_key

\* C21: in point-to-point mode a queried provider issues exactly one
\* request per get_best_route call, and a provider whose request failed
\* contributes no route.
C21_OneRequestPointToPoint ==
    mode = "point-to-point" =>
        \A n \in Providers :
            /\ calls[n] <= 1
            /\ (pc = "done" /\ Queried(n) /\ end) => calls[n] = 1
            /\ (calls[n] = 1 /\ allFailed[n]) => From(n) = {}

C21_Witness ==
    /\ mode = "point-to-point" /\ pc = "done"
    /\ calls["ORS"] = 1 /\ allFailed["ORS"]
    /\ calls["GraphHopper"] = 1 /\ ~allFailed["GraphHopper"]
    /\ From("ORS") = {} /\ From("GraphHopper") # {}

StrictlyIncreasing(elevations) ==
    \A i \in 1..(Len(elevations) - 1) : elevations[i] < elevations[i + 1]

\* C22: calculate_elevation_gain and the elevation_loss of
\* get_route_statistics are >= 0 for every point sequence; for a strictly
\* increasing elevation profile the gain is the last elevation minus the
\* first and the loss is 0.
C22_GainAndLoss ==
    /\ pc = "gain_returned" =>
          /\ returned >= 0
          /\ LET es == ElevationsOf(args)
             IN  (es # << >> /\ StrictlyIncreasing(es)) =>
                     returned = es[Len(es)] - es[1]
    /\ pc = "statistics_returned" =>
          /\ returned.elevation_loss >= 0
          /\ StrictlyIncreasing(ElevationsOf(args.points)) =>
                 returned.elevation_loss = 0

C22_Witness ==
    /\ pc = "gain_returned"
    /\ ElevationsOf(args) = <<0 - 5, 0, 10>>
    /\ Len(args) = 4
    /\ returned = 15

C22_WitnessLoss ==
    /\ pc = "statistics_returned"
    /\ ElevationsOf(args.points) = <<10, 0, 5>>
    /\ returned.elevation_loss = 10

\* the one place of the separator in a string with exactly one
ColonAt(s) == CHOOSE i \in 1..Len(s) : s[i] = ":"

\* exactly two colon-separated integer parts
TwoIntegerParts(s) ==
    /\ Cardinality({i \in 1..Len(s) : s[i] = ":"}) = 1
    /\ IsInt(SubSeq(s, 1, ColonAt(s) - 1))
    /\ IsInt(SubSeq(s, ColonAt(s) + 1, Len(s)))

\* C23: parse_pace returns M + S/60 for an input of exactly two
\* colon-separated integer parts M:S, whatever the range of S, and the
\* default 5.5 for every other input; it never raises.
C23_ParsePace ==
    pc = "pace_returned" =>
        IF TwoIntegerParts(args)
        THEN returned = 60 * IntOf(SubSeq(args, 1, ColonAt(args) - 1))
                        + IntOf(SubSeq(args, ColonAt(args) + 1, Len(args)))
        ELSE returned = 330

C23_Witness ==
    pc = "pace_returned" /\ args = <<"5", ":", "9", "0">> /\ returned = 390

C23_WitnessDefault ==
    pc = "pace_returned" /\ args = <<"5", ":", "x">> /\ returned = 330

\* the candidate of a loop attempt answered by r, and its deviation
LoopAttempt(r) ==
    \/ pc = "ors_loop" /\ OrsCandidate(r) /\ OrsLoopAttempt(r)
    \/ pc = "gh_loop" /\ GhCandidate(r) /\ GhLoopAttempt(r)

CandidateDeviation(r) == Abs(GetDistance(r) - distance_m)

\* C24: in both loop searches, as long as no candidate within tolerance has
\* been seen the candidate held is the one of smallest deviation seen so
\* far (the earlier one on a tie); once a candidate within tolerance is
\* held it stays within tolerance, and it is replaced only by a candidate
\* within tolerance of strictly smaller deviation.
C24_HeldCandidate ==
    [][(InLoop /\ lastKind' = "ok") =>
          \A r \in Answers(backend, distance_m) : LoopAttempt(r) =>
             LET deviation == CandidateDeviation(r)
                 replaced == best_route' = r /\ best_deviation' = deviation
                 kept == /\ best_route' = best_route
                         /\ best_deviation' = best_deviation
             IN  /\ found_within_tolerance' =
                        (found_within_tolerance \/ WithinTolerance(deviation))
                 /\ ~found_within_tolerance' =>
                        /\ deviation < best_deviation => replaced
                        /\ deviation >= best_deviation => kept
                 /\ (~found_within_tolerance /\ found_within_tolerance')
                        => replaced
                 /\ found_within_tolerance =>
                        /\ WithinTolerance(best_deviation')
                        /\ ~kept => /\ replaced
                                    /\ WithinTolerance(deviation)
                                    /\ deviation < best_deviation
                        /\ (\/ ~WithinTolerance(deviation)
                            \/ deviation >= best_deviation) => kept]_vars

\* a candidate 2% over the target is held within a tolerance of 5% after a
\* later attempt that returned a route
C24_Witness ==
    /\ InLoop
    /\ attempt >= 2
    /\ found_within_tolerance
    /\ best_route.dist = distance_m + (distance_m \div 50)
    /\ lastKind = "ok"
    /\ tolerance_percent = 5

\* no candidate within tolerance yet, and one outside tolerance is held
C24_WitnessOutside ==
    /\ InLoop
    /\ attempt >= 2
    /\ ~found_within_tolerance
    /\ best_route # NoData

C25_WitnessZero ==
    /\ mode = "loop" /\ seed = 0
    /\ Len(seeds) >= 2
    /\ seeds[1] # seeds[2]

\* a search with a negative seed whose attempts sent two different seeds
C25_WitnessNegative ==
    /\ mode = "loop" /\ seed < 0
    /\ Len(seeds) >= 2
    /\ seeds[1] # seeds[2]

\* C26: on attempt i (0-based) of a GraphHopper loop search the requested
\* round-trip distance is the target multiplied by 1 + 0.05 * i, truncated
\* to whole metres; the first attempt requests the target itself and the
\* requested distance never decreases from one attempt to the next.
C26_AdjustedDistance ==
    [][\A r \in Answers(backend, distance_m) : GhLoopAttempt(r) =>
          /\ request'.length = (distance_m * (100 + 5 * attempt)) \div 100
          /\ attempt = 0 => request'.length = distance_m
          /\ attempt > 0 => request'.length >= request.length]_vars

\* rounding to the nearest integer, halves to the even one
Round(n, d) ==
    LET q == n \div d
        r == n % d
    IN  IF 2 * r > d \/ (2 * r = d /\ q % 2 = 1) THEN q + 1 ELSE q

\* C27: every ORS loop request asks for clamp(round(target / 2000), 2, 5)
\* points, the same number on every attempt of a search.
C27_WaypointsRounded ==
    [][\A r \in Answers(backend, distance_m) : OrsLoopAttempt(r) =>
          /\ request'.points = Min(5, Max(2, Round(distance_m, 2000)))
          /\ attempt > 0 => request'.points = request.points]_vars

\* a response that carries route points and no total distance
PointsWithoutDistance(r) ==
    /\ r.kind = "ok"
    /\ r.dist = Missing
    /\ r.hasCoords
    /\ Len(r.coords) >= 2

\* the route the step has appended has the length of its points
LengthOfPoints(r) ==
    /\ Len(routes') = Len(routes) + 1
    /\ routes'[Len(routes')].distance = calculate_distance_from_points(r.coords)

\* C28: a response with route points and no total distance counts as a
\* successful attempt, and the route returned for it has the sum of the
\* segment distances of its points as its distance, in both providers, in
\* loop and in point-to-point mode.
C28_DistanceFromPoints ==
    [][\A r \in Answers(backend, distance_m) : PointsWithoutDistance(r) =>
          /\ OrsPointToPoint(r) => LengthOfPoints(r)
          /\ GhPointToPoint(r) => LengthOfPoints(r)
          /\ (OrsLoopAttempt(r) \/ GhLoopAttempt(r)) =>
                 /\ best_route = NoData => best_route' = r
                 /\ (best_route' = r /\ routes' # routes) => LengthOfPoints(r)]_vars

\* the route the step has appended was parsed from data
ParsedFrom(data) ==
    /\ Len(routes') = Len(routes) + 1
    /\ routes'[Len(routes')].elevation_gain =
           IF data.ascent \notin {Missing, Null} /\ data.ascent > 0
           THEN data.ascent
           ELSE calculate_elevation_gain(ParsedPoints(data))

\* C29: the elevation_gain of a Route that a provider parser returns is
\* the ascent the backend reported when there is one and it is > 0, and
\* calculate_elevation_gain of the parsed points otherwise.
C29_ElevationGainSource ==
    [][(routes' # routes /\ pc # "rank") =>
          IF InLoop
          THEN ParsedFrom(best_route')
          ELSE \A r \in Answers(backend, distance_m) :
                  (OrsPointToPoint(r) \/ GhPointToPoint(r)) => ParsedFrom(r)]_vars

\* a route with the reported ascent of 30 m, whose points climb 10 m
C29_Witness ==
    \E i \in 1..Len(routes) :
        /\ routes[i].elevation_gain = 30
        /\ calculate_elevation_gain(routes[i].points) = 10

\* a route with the 10 m its points climb: the ascent reported is negative
\* or absent
C29_WitnessCalculated ==
    \E i \in 1..Len(routes) :
        /\ routes[i].elevation_gain = 10
        /\ calculate_elevation_gain(routes[i].points) = 10

\* C30 as stated: no code path submits a via point computed by
\* calculate_via_points to a routing provider.
C30_NoViaPointSubmitted == request.via = NoVia

\* C30, amended: a via point computed by calculate_via_points is submitted
\* by get_route_ors of main.py only, in point-to-point mode, after a first
\* route whose distance is outside the tolerance: at most the first two
\* via points, in order, each as the middle coordinate of one request.
C30_ViaPointsOfGetRouteOrs ==
    request.via # NoVia =>
        /\ pc \in {"via", "returned"}
        /\ mode = "point-to-point" /\ end
        /\ via \in 1..2
        /\ calls["ORS"] = via + 1
        /\ request.via = via_points[via]
        /\ ~WithinTolerance(request.via.extra)

\* get_route_ors has submitted two via points and returned a route
C30_Witness ==
    /\ pc = "returned"
    /\ via = 2
    /\ request.via = ViaPoint(90, 160)
    /\ result # NoRoute

\* C31: the candidate a loop search holds, and returns at its end, has the
\* smallest absolute deviation from the target among the successful
\* attempts of that search and is the earliest attempt with that deviation,
\* whichever stop rule ends the search.
C31_ReturnedIsLeastDeviation ==
    /\ best_route = earliest
    /\ best_route # NoData => best_deviation = least
    /\ (best_route # NoData /\ best_route.dist \notin {Missing, Null}) =>
           Abs(best_route.dist - distance_m) = least

\* an ORS search ended after its third attempt by the stop on a candidate
\* within tolerance that is no perfect match
C31_Witness ==
    /\ pc = "done" /\ mode = "loop" /\ selector = "ors"
    /\ calls["ORS"] = 3
    /\ found_within_tolerance
    /\ ~IsPerfect(best_route.dist)
    /\ result.distance = best_route.dist

\* a GraphHopper search ended by its last attempt with a candidate outside
\* the tolerance
C31_WitnessExhausted ==
    /\ pc = "done" /\ mode = "loop" /\ selector = "graphhopper"
    /\ calls["GraphHopper"] = max_attempts
    /\ ~found_within_tolerance
    /\ best_route # NoData /\ best_route.dist # Missing
    /\ result.distance = best_route.dist

\* a search ended by a perfect match after an earlier candidate
C31_WitnessPerfect ==
    /\ pc = "done" /\ mode = "loop"
    /\ Total = 2 /\ anyGood
    /\ best_route # NoData /\ best_route.dist # Missing
    /\ IsPerfect(best_route.dist)
    /\ best_deviation > 0

\* C32: a call that returned None (after provider failures or for missing
\* credentials) is memoized like a success: the same call within the
\* time-to-live returns None again and issues no provider request.
C32_FailureIsMemoized ==
    (run > 1 /\ previous.result = NoRoute /\ previous.age < CACHE_TTL) =>
        /\ pc = "done"
        /\ result = NoRoute
        /\ Total = 0
        /\ request = NoRequest

\* the call before failed after provider requests, and time has passed
C32_Witness ==
    /\ run > 1 /\ previous.result = NoRoute
    /\ previous.calls > 0
    /\ previous.age > 0 /\ previous.age < CACHE_TTL

\* the call before failed for missing credentials
C32_WitnessNoKey ==
    /\ run > 1 /\ previous.result = NoRoute
    /\ previous.calls = 0 /\ ~orsKey /\ ~ghKey
    /\ previous.age > 0 /\ previous.age < CACHE_TTL

\* C33: with selector auto and both keys configured there is no fallback:
\* ORS is never queried, and when the GraphHopper search produces no route
\* get_best_route returns None.
C33_AutoHasNoFallback ==
    (selector = "auto" /\ ghKey /\ orsKey) =>
        /\ calls["ORS"] = 0
        /\ From("ORS") = {}
        /\ (pc = "done" /\ From("GraphHopper") = {}) => result = NoRoute

\* the GraphHopper search has used up its attempts without a route and
\* None is returned
C33_Witness ==
    /\ selector = "auto" /\ ghKey /\ orsKey
    /\ mode = "loop"
    /\ pc = "done"
    /\ calls["GraphHopper"] = max_attempts
    /\ allFailed["GraphHopper"]
    /\ result = NoRoute

\* C34: with selector both, the route returned has the smallest
\* |distance - target| among the routes of the two providers: the ranking
\* by (within tolerance or not, deviation) selects what the ranking by
\* deviation alone selects.
C34_ReturnedIsClosest ==
    (selector = "both" /\ pc = "done" /\ result # NoRoute) =>
        /\ \E i \in 1..Len(routes) : result = routes[i]
        /\ \A i \in 1..Len(routes) : Deviation(result) <= Deviation(routes[i])

\* both providers returned a route, both outside the tolerance, and the
\* GraphHopper route, the closer one, is returned
C34_Witness ==
    /\ selector = "both" /\ pc = "done"
    /\ Len(routes) = 2
    /\ result.provider = "GraphHopper"
    /\ Group(result) = 1
    /\ \E i \in 1..2 : /\ routes[i].provider = "ORS"
                        /\ Deviation(routes[i]) > Deviation(result)

\* C35: with selector both, when the ORS route and the GraphHopper route
\* have the same absolute deviation from the target, the ORS route is
\* returned.
C35_TieGoesToOrs ==
    (selector = "both" /\ pc = "done" /\ Len(routes) = 2
        /\ Deviation(routes[1]) = Deviation(routes[2])) =>
        /\ result.provider = "ORS"
        /\ routes[2].provider = "GraphHopper"

\* the ORS route is 2% over and the GraphHopper route 2% under the target
C35_Witness ==
    /\ selector = "both" /\ pc = "done" /\ Len(routes) = 2
    /\ result.provider = "ORS"
    /\ result.distance = distance_m + (distance_m \div 50)
    /\ routes[2].provider = "GraphHopper"
    /\ routes[2].distance = distance_m - (distance_m \div 50)

\* C36: in the GraphHopper loop search the deviation, the test for the
\* tolerance and the test for a perfect match of every attempt are computed
\* against the target of the caller, never against the adjusted distance
\* the attempt requested.
C36_ScoredAgainstTarget ==
    [][\A r \in Answers(backend, distance_m) :
          (pc = "gh_loop" /\ GhCandidate(r) /\ GhLoopAttempt(r)) =>
             LET deviation == Abs(GetDistance(r) - distance_m)
                 within == 100 * deviation <= distance_m * tolerance_percent
                 perfect == 100 * deviation <= distance_m
             IN  /\ found_within_tolerance' = (found_within_tolerance \/ within)
                 /\ best_route' = r => best_deviation' = deviation
                 /\ (within /\ perfect) => pc' # "gh_loop"
                 /\ (pc' # "gh_loop" /\ attempt + 1 < max_attempts)
                        => (within /\ perfect)]_vars

\* the second attempt, which requested more than the target, returned the
\* candidate held: a route 2% over the target
C36_Witness ==
    /\ pc = "gh_loop"
    /\ attempt = 2
    /\ request.length > distance_m
    /\ lastKind = "ok"
    /\ found_within_tolerance
    /\ best_route.dist = distance_m + (distance_m \div 50)
    /\ best_deviation = distance_m \div 50
    /\ best_route.hasCoords

\* C37: for a target distance of 0 in loop mode, get_route of both
\* providers returns no route and raises no exception, whatever the
\* provider responds.
C37_ZeroTargetReturnsNone ==
    (distance_km = 0 /\ mode = "loop") =>
        /\ pc # "raised"
        /\ routes = << >>

\* C38: in the point-to-point path of get_route_ors at most 3 requests are
\* issued, and once the direct request has produced a valid route the
\* function returns a route, whatever the requests through via points
\* return.
C38_DirectRouteSurvives ==
    [][/\ pc \in {"first_request", "via"} => calls'["ORS"] <= 3
       /\ (pc = "via" /\ pc' = "returned") => result' # NoRoute]_vars

C39_WitnessSecrets ==
    /\ run > 1 /\ previous.age < CACHE_TTL
    /\ selector = "ors" /\ ~previous.ors /\ orsKey
    /\ result = NoRoute /\ pc = "done"

\* C40: for every point sequence, calculate_elevation_gain(points) minus
\* the elevation_loss of get_route_statistics is the last non-null
\* elevation minus the first one, and 0 when fewer than two points carry
\* an elevation.
C40_GainMinusLoss ==
    pc = "statistics_returned" =>
        LET es == ElevationsOf(args.points)
        IN  returned.elevation_gain - returned.elevation_loss =
                IF Len(es) < 2 THEN 0 ELSE es[Len(es)] - es[1]

\* a descent and a climb around a point without elevation
C40_Witness ==
    /\ pc = "statistics_returned"
    /\ Len(args.points) = 4
    /\ ElevationsOf(args.points) = <<10, 0 - 5, 5>>
    /\ returned.elevation_gain = 10
    /\ returned.elevation_loss = 15

\* no point has a nonzero elevation, and calculate_elevation_gain returns
\* early
C40_WitnessSeaLevel ==
    /\ pc = "statistics_returned"
    /\ ElevationsOf(args.points) = <<0, 0>>
    /\ returned.elevation_gain = 0
    /\ returned.elevation_loss = 0

====
